---- MODULE Spec2Model ----
(***************************************************************************)
(* Model of the schema inference and metadata merge of                     *)
(* Python/examples/gateway_generate_docs.py: get_type_string, get_schema   *)
(* and merge.                                                              *)
(*                                                                         *)
(* A Python value is the pair <<class name, payload>>.  A dict's payload   *)
(* is the sequence of its <<key, value>> items in insertion order, a       *)
(* list's payload is the sequence of its elements.  A call's outcome is    *)
(* <<"return", value>> or <<"raise", <<exception class, message>>>>.       *)
(***************************************************************************)
EXTENDS Integers, Sequences, FiniteSets, TLC

VARIABLES pc, json_value, type_string, json_object, root_name, field_map,
          json_schema, tree_a, tree_b, a_before, b_before, merged

vars == <<pc, json_value, type_string, json_object, root_name, field_map,
          json_schema, tree_a, tree_b, a_before, b_before, merged>>

----------------------------------------------------------------------------
(* Python values *)

PyInt(n) == <<"int", n>>
PyFloat(literal) == <<"float", literal>>
PyBool(flag) == <<"bool", flag>>
PyStr(s) == <<"str", s>>
PyNone == <<"NoneType", "None">>
PyList(elements) == <<"list", elements>>
PyDict(items) == <<"dict", items>>

ClassOf(v) == v[1]
Payload(v) == v[2]

\* The classes a value of class c is an instance of: bool is a subclass of int.
Mro(c) == IF c = "bool" THEN {"bool", "int", "object"} ELSE {c, "object"}

isinstance(v, classes) == \E c \in classes : c \in Mro(ClassOf(v))

\* Python truth value testing.
Truthy(v) ==
    CASE ClassOf(v) = "NoneType" -> FALSE
      [] ClassOf(v) = "bool" -> Payload(v)
      [] ClassOf(v) = "int" -> Payload(v) # 0
      [] ClassOf(v) = "float" -> Payload(v) \notin {"0.0", "-0.0"}
      [] ClassOf(v) = "str" -> Payload(v) # ""
      [] OTHER -> Len(Payload(v)) > 0

\* The numeric value of an int, a bool or a float, as its literal.
NumLiteral(v) ==
    CASE ClassOf(v) = "bool" -> IF Payload(v) THEN "1" ELSE "0"
      [] ClassOf(v) = "int" -> ToString(Payload(v))
      [] OTHER -> Payload(v)

\* Equality of strings only.
PyEqStrings(x, y) == ClassOf(x) = "str" /\ x = y

\* Python's == on the scalars: numbers compare by value across int and bool.
PyEq(x, y) ==
    IF isinstance(x, {"int", "float"}) /\ isinstance(y, {"int", "float"})
    THEN NumLiteral(x) = NumLiteral(y)
    ELSE x = y

Return(v) == <<"return", v>>
Raise(class, message) == <<"raise", <<class, message>>>>
Returned(outcome) == outcome[1] = "return"
Raised(outcome) == outcome[1] = "raise"
Value(outcome) == outcome[2]

----------------------------------------------------------------------------
(* dict operations on the items sequence *)

DictKeys(items) == {items[i][1] : i \in 1..Len(items)}
DictHas(items, key) == key \in DictKeys(items)
DictItem(items, key) == items[CHOOSE i \in 1..Len(items) : items[i][1] = key][2]
\* dict.get(key): None when the key is absent.
DictGet(items, key) == IF DictHas(items, key) THEN DictItem(items, key) ELSE PyNone
\* d[key] = value: an existing key keeps its position, a new key is appended.
DictSet(items, key, value) ==
    IF DictHas(items, key)
    THEN [i \in 1..Len(items) |-> IF items[i][1] = key THEN <<key, value>> ELSE items[i]]
    ELSE Append(items, <<key, value>>)

RECURSIVE DictUpdate(_, _)
\* d.update(other)
DictUpdate(items, other) ==
    IF other = <<>> THEN items
    ELSE DictUpdate(DictSet(items, Head(other)[1], Head(other)[2]), Tail(other))

----------------------------------------------------------------------------
(* get_type_string *)

get_type_string(v) ==
    IF isinstance(v, {"int", "float"}) THEN "Number"
    ELSE IF isinstance(v, {"bool"}) THEN "Boolean"
    ELSE IF isinstance(v, {"str"}) THEN "String"
    ELSE IF v = PyNone THEN "Null"
    ELSE "Unknown"

----------------------------------------------------------------------------
(* get_schema *)

\* str.capitalize() on the keys of the model: first character upper-cased,
\* the rest lower-cased.
capitalize(json_key) ==
    CASE json_key = "items" -> "Items"
      [] json_key = "rows" -> "Rows"
      [] json_key = "id" -> "Id"
      [] json_key = "name" -> "Name"
      [] json_key = "sub" -> "Sub"
      [] json_key = "wNow" -> "Wnow"
      [] json_key = "." -> "."
      [] OTHER -> json_key

\* A local variable that no assignment has reached.
Unbound == <<"unbound", "current_table_field_map">>

\* current_table_field_map after the block guarded by field_map.
CurrentTableFieldMap(fmap, tname) ==
    IF Truthy(fmap) THEN DictGet(Payload(fmap), tname) ELSE Unbound

\* The default name of a nested table, which keeps its scope.
DefaultChildTableName(tname, json_key) ==
    (IF tname # "" /\ tname # "." THEN tname \o "." ELSE "") \o capitalize(json_key)

\* current_table_field_map and current_table_field_map.get(json_key).get('value_name')
ValueNameOverride(ctfm, json_key) ==
    IF ctfm = Unbound
    THEN Raise("UnboundLocalError", "current_table_field_map")
    ELSE IF ~Truthy(ctfm) THEN Return(PyNone)
    ELSE IF ClassOf(ctfm) # "dict"
    THEN Raise("AttributeError", "'" \o ClassOf(ctfm) \o "' object has no attribute 'get'")
    ELSE LET entry == DictGet(Payload(ctfm), json_key)
         IN  IF ClassOf(entry) # "dict"
             THEN Raise("AttributeError",
                        "'" \o ClassOf(entry) \o "' object has no attribute 'get'")
             ELSE Return(DictGet(Payload(entry), "value_name"))

\* The name of the table of an array of objects: overridden or default.
ListChildTableName(value_name, tname, json_key) ==
    IF Truthy(value_name) THEN Payload(value_name)
    ELSE DefaultChildTableName(tname, json_key)

\* The key is looked for in the first item only.
AbsentFromFirstItem(key, elements) == ~DictHas(Payload(elements[1]), key)

\* any(key not in item for item in json_value)
AbsentFromSomeItem(key, elements) ==
    \E i \in 1..Len(elements) : ~DictHas(Payload(elements[i]), key)

\* descriptor['optional'] = True
SetOptional(descriptor) == PyDict(DictSet(Payload(descriptor), "optional", PyBool(TRUE)))

\* The loop over new_list_items that marks the optional keys.
MarkNewOptional(new_list_items, elements, old_list_items) ==
    [i \in 1..Len(new_list_items) |->
        IF \/ AbsentFromSomeItem(new_list_items[i][1], elements)
           \/ (Truthy(old_list_items)
               /\ ~DictHas(Payload(old_list_items), new_list_items[i][1]))
        THEN <<new_list_items[i][1], SetOptional(new_list_items[i][2])>>
        ELSE new_list_items[i]]

\* The loop over old_list_items that marks the old keys absent from a new item.
MarkOldOptional(old_items, elements) ==
    [i \in 1..Len(old_items) |->
        IF AbsentFromSomeItem(old_items[i][1], elements)
        THEN <<old_items[i][1], SetOptional(old_items[i][2])>>
        ELSE old_items[i]]

\* child_tables after the list of objects has been folded in.
StoreListItems(child_tables, child_table_name, new_list_items, elements) ==
    LET old_list_items == IF DictHas(child_tables, child_table_name)
                          THEN DictItem(child_tables, child_table_name)
                          ELSE PyNone
        marked == MarkNewOptional(new_list_items, elements, old_list_items)
    IN  IF Truthy(old_list_items)
        THEN DictSet(child_tables, child_table_name,
                     PyDict(DictUpdate(MarkOldOptional(Payload(old_list_items), elements),
                                       marked)))
        ELSE DictSet(child_tables, child_table_name, PyDict(marked))

\* The descriptor of an array that does not start with an object.
ScalarArrayField(list_value) ==
    PyDict(<< <<"type", PyStr("Array(" \o get_type_string(list_value) \o ")")>>,
              <<"value", PyStr("Array of " \o get_type_string(list_value))>> >>)

\* The backquote character of the source's string literals; a TLA+ string
\* cannot hold it, so it is written as an apostrophe, which no key contains.
Backquote == "'"

\* The descriptor of a key whose value is an object.
ObjectField(child_table_name) ==
    PyDict(<< <<"type", PyStr("Object")>>,
              <<"value", PyStr(Backquote \o child_table_name \o Backquote)>> >>)

\* The descriptor of a key whose value is an array of objects.
ObjectArrayField(child_table_name) ==
    PyDict(<< <<"type", PyStr("Array(Object)")>>,
              <<"value", PyStr("Array of " \o Backquote \o child_table_name \o Backquote)>> >>)

\* The descriptor of a key whose value is a standard JSON type.
ScalarField(value) == PyDict(<< <<"type", PyStr(get_type_string(value))>> >>)

\* tables = {table_name: current_table_fields}; tables.update(child_tables)
BuildTables(tname, current_table_fields, child_tables) ==
    PyDict(DictUpdate(<< <<tname, PyDict(current_table_fields)>> >>, child_tables))

RECURSIVE get_schema(_, _, _)
RECURSIVE SchemaLoop(_, _, _, _, _, _, _)
RECURSIVE ListItems(_, _, _, _, _)

\* for list_item in json_value: new_list_items.update(get_schema(...)[child_table_name])
ListItems(elements, i, child_table_name, fmap, new_list_items) ==
    IF i > Len(elements) THEN Return(new_list_items)
    ELSE LET r == get_schema(elements[i], child_table_name, fmap)
         IN  IF Raised(r) THEN r
             ELSE ListItems(elements, i + 1, child_table_name, fmap,
                            DictUpdate(new_list_items,
                                       Payload(DictItem(Payload(Value(r)),
                                                        child_table_name))))

\* for json_key, json_value in json_object.items(), from the i-th item on.
SchemaLoop(items, i, tname, fmap, ctfm, current_table_fields, child_tables) ==
    IF i > Len(items) THEN Return(BuildTables(tname, current_table_fields, child_tables))
    ELSE
    LET json_key == items[i][1]
        value == items[i][2]
    IN  IF isinstance(value, {"dict"})
        THEN LET child_table_name == DefaultChildTableName(tname, json_key)
                 r == get_schema(value, child_table_name, fmap)
             IN  IF Raised(r) THEN r
                 ELSE SchemaLoop(items, i + 1, tname, fmap, ctfm,
                          DictSet(current_table_fields, json_key,
                                  ObjectField(child_table_name)),
                          DictSet(child_tables, child_table_name, Value(r)))
        ELSE IF isinstance(value, {"list"})
        THEN IF Len(Payload(value)) > 0 /\ isinstance(Payload(value)[1], {"dict"})
             THEN LET override == ValueNameOverride(ctfm, json_key)
                  IN  IF Raised(override) THEN override
                      ELSE
                      LET child_table_name ==
                              ListChildTableName(Value(override), tname, json_key)
                          r == ListItems(Payload(value), 1, child_table_name, fmap, <<>>)
                      IN  IF Raised(r) THEN r
                          ELSE SchemaLoop(items, i + 1, tname, fmap, ctfm,
                                   DictSet(current_table_fields, json_key,
                                           ObjectArrayField(child_table_name)),
                                   StoreListItems(child_tables, child_table_name,
                                                  Value(r), Payload(value)))
             ELSE SchemaLoop(items, i + 1, tname, fmap, ctfm,
                      DictSet(current_table_fields, json_key, ScalarArrayField(value)),
                      child_tables)
        ELSE SchemaLoop(items, i + 1, tname, fmap, ctfm,
                 DictSet(current_table_fields, json_key, ScalarField(value)),
                 child_tables)

get_schema(obj, tname, fmap) ==
    IF ~isinstance(obj, {"dict"})
    THEN Raise("AttributeError", "'" \o ClassOf(obj) \o "' object has no attribute 'items'")
    ELSE SchemaLoop(Payload(obj), 1, tname, fmap, CurrentTableFieldMap(fmap, tname),
                    <<>>, <<>>)

----------------------------------------------------------------------------
(* merge *)

RECURSIVE Join(_)
\* '.'.join(path)
Join(path) ==
    IF path = <<>> THEN ""
    ELSE IF Len(path) = 1 THEN path[1]
    ELSE path[1] \o "." \o Join(Tail(path))

\* The message names the key alone.
ConflictMessageKeyOnly(path, key) == "Conflict at " \o key

\* 'Conflict at %s' % '.'.join(path + [str(key)])
ConflictMessage(path, key) == "Conflict at " \o Join(Append(path, key))

\* The mapping is replaced by one that holds the description alone.
SetDescriptionOnly(mapping, text) == PyDict(<< <<"description", text>> >>)

\* mapping['description'] = text
SetDescription(mapping, text) == PyDict(DictSet(Payload(mapping), "description", text))

RECURSIVE merge(_, _, _, _)
\* merge(a, b, path) from the i-th key of b on.  The result is
\* <<outcome, a, b>>: the call mutates both of its arguments in place.
merge(a_items, b_items, i, path) ==
    IF i > Len(b_items) THEN <<Return(PyDict(a_items)), a_items, b_items>>
    ELSE
    LET key == b_items[i][1]
        b_value == b_items[i][2]
    IN  IF DictHas(a_items, key)
        THEN LET a_value == DictItem(a_items, key)
             IN  IF isinstance(a_value, {"dict"}) /\ isinstance(b_value, {"dict"})
                 THEN LET r == merge(Payload(a_value), Payload(b_value), 1,
                                     Append(path, key))
                          a_after == DictSet(a_items, key, PyDict(r[2]))
                          b_after == DictSet(b_items, key, PyDict(r[3]))
                      IN  IF Raised(r[1]) THEN <<r[1], a_after, b_after>>
                          ELSE merge(a_after, b_after, i + 1, path)
                 ELSE IF PyEq(a_value, b_value)
                 THEN merge(a_items, b_items, i + 1, path)
                 ELSE IF isinstance(a_value, {"dict"}) /\ isinstance(b_value, {"str"})
                 THEN merge(DictSet(a_items, key, SetDescription(a_value, b_value)),
                            b_items, i + 1, path)
                 ELSE IF isinstance(b_value, {"dict"}) /\ isinstance(a_value, {"str"})
                 THEN LET described == SetDescription(b_value, a_value)
                      IN  merge(DictSet(a_items, key, described),
                                DictSet(b_items, key, described), i + 1, path)
                 ELSE <<Raise("Exception", ConflictMessage(path, key)), a_items, b_items>>
        ELSE merge(DictSet(a_items, key, b_value), b_items, i + 1, path)

----------------------------------------------------------------------------
(* The inputs *)

MaxInt == 20
MaxLen == 3
MaxScalarLen == 2
MaxNesting == 1

Entry(key, value) == <<key, value>>
Obj1(key, value) == PyDict(<< Entry(key, value) >>)

\* Float literals are non-integral, so that no float equals an int.
JsonScalars ==
    {PyInt(n) : n \in (0 - MaxInt)..MaxInt}
        \cup {PyFloat(f) : f \in {"2.5", "0.024", "276144.03"}}
        \cup {PyBool(flag) : flag \in BOOLEAN}
        \cup {PyStr(s) : s \in {"", "x", "eim", "An example field"}}
        \cup {PyNone}

TypeInputs ==
    JsonScalars \cup {PyList(<<>>), PyList(<<PyInt(1)>>), PyDict(<<>>),
                      Obj1("id", PyInt(1))}

\* The objects found inside arrays: flat ones, and two that nest an object
\* and an array of objects.
ElementObjects ==
    {PyDict(id \o name) :
        id \in {<<>>, << Entry("id", PyInt(1)) >>, << Entry("id", PyInt(2)) >>},
        name \in {<<>>, << Entry("name", PyStr("x")) >>}}
        \cup {PyDict(<< Entry("id", PyInt(1)), Entry("sub", Obj1("id", PyInt(1))) >>),
              Obj1("rows", PyList(<< Obj1("name", PyStr("x")), PyDict(<<>>) >>))}

ArrayScalars == {PyInt(1), PyFloat("2.5"), PyBool(TRUE), PyStr("x"), PyNone}

ObjectArrays == UNION {[1..n -> ElementObjects] : n \in 1..MaxLen}
ScalarArrays == UNION {[1..n -> ArrayScalars] : n \in 0..MaxScalarLen}
MixedArrays ==
    {<<s, o>> : s \in {PyInt(1), PyStr("x")}, o \in {Obj1("id", PyInt(1))}}
        \cup {<<o, s>> : s \in {PyInt(1), PyStr("x")}, o \in {Obj1("id", PyInt(1))}}

Arrays == ObjectArrays \cup ScalarArrays \cup MixedArrays
SmallArrays ==
    {<<>>, <<PyInt(1)>>, <<Obj1("id", PyInt(1))>>,
     <<PyDict(<< Entry("id", PyInt(1)), Entry("name", PyStr("x")) >>),
       Obj1("id", PyInt(2))>>}

\* Entries of the root object that are not arrays.
OtherEntries ==
    {Entry("sub", Obj1("id", PyInt(1))),
     Entry("sub", PyDict(<< Entry("id", PyInt(1)),
                            Entry("sub", Obj1("name", PyStr("x"))) >>)),
     Entry(".", Obj1("id", PyInt(1))),
     Entry("wNow", PyFloat("2.5")),
     Entry("wNow", PyBool(TRUE)),
     Entry("id", PyNone)}

\* The arrays of the objects with two arrays: one or two flat elements.
PairElements ==
    {PyDict(id \o name) :
        id \in {<<>>, << Entry("id", PyInt(1)) >>},
        name \in {<<>>, << Entry("name", PyStr("x")) >>}}
PairArrays ==
    {<<e>> : e \in PairElements} \cup {<<e[1], e[2]>> : e \in PairElements \X PairElements}

JsonObjects ==
    {PyDict(<< Entry("items", PyList(arr)) >>) : arr \in Arrays}
        \cup {PyDict(<< Entry("items", PyList(p[1])), Entry("rows", PyList(p[2])) >>) :
                 p \in PairArrays \X PairArrays}
        \cup {PyDict(<< Entry("rows", PyList(p[2])), Entry("items", PyList(p[1])) >>) :
                 p \in PairArrays \X PairArrays}
        \cup {PyDict(<< e >>) : e \in OtherEntries}
        \cup {PyDict(<< Entry("items", PyList(arr)), e >>) :
                 arr \in SmallArrays, e \in OtherEntries}
        \cup {PyDict(<< e, Entry("items", PyList(arr)) >>) :
                 arr \in SmallArrays, e \in OtherEntries}
        \cup {PyDict(<< pair[1], pair[2] >>) :
                 pair \in {p \in OtherEntries \X OtherEntries : p[1][1] # p[2][1]}}

TableNames == {".", "Production"}

\* The field map hints for a call under table name tname.
FieldMaps(tname) ==
    {PyNone,
     PyDict(<<>>),
     Obj1("Other", PyDict(<<>>)),
     Obj1(tname, PyDict(<<>>)),
     Obj1(tname, Obj1("wNow", Obj1("description", PyStr("An example field")))),
     Obj1(tname, Obj1("items", PyStr("An example field"))),
     Obj1(tname, Obj1("items", Obj1("description", PyStr("An example field")))),
     Obj1(tname, Obj1("items", Obj1("value_name", PyStr("")))),
     Obj1(tname, Obj1("items", Obj1("value_name", PyStr("Row")))),
     Obj1(tname, Obj1("items", Obj1("value_name", PyStr(tname)))),
     Obj1(tname, PyDict(<< Entry("items", Obj1("value_name", PyStr("Row"))),
                           Entry("rows", Obj1("value_name", PyStr("Row"))) >>))}

\* The trees that merge is given.
Leaves == {PyStr("An example field"), PyStr("Number"), PyInt(1), PyInt(2), PyBool(TRUE)}

Descriptors ==
    {PyDict(type \o description) :
        type \in {<<>>} \cup {<< Entry("type", l) >> :
                                l \in {PyStr("Number"), PyInt(1), PyInt(2)}},
        description \in {<<>>} \cup {<< Entry("description", l) >> :
                                l \in {PyStr("An example field"), PyStr("Number"),
                                       PyBool(TRUE)}}}

FieldValues == Leaves \cup Descriptors

Trees ==
    {PyDict(fa \o fb) :
        fa \in {<<>>} \cup {<< Entry("a", v) >> : v \in FieldValues},
        fb \in {<<>>} \cup {<< Entry("b", v) >> :
                              v \in {PyStr("An example field"), PyInt(1),
                                     Obj1("type", PyStr("Number"))}}}

RECURSIVE Reversed(_)
\* The same dict with its keys inserted in the opposite order, at every level.
Reversed(v) ==
    IF ClassOf(v) # "dict" THEN v
    ELSE PyDict([i \in 1..Len(Payload(v)) |->
                    LET item == Payload(v)[Len(Payload(v)) + 1 - i]
                    IN  Entry(item[1], Reversed(item[2]))])

RECURSIVE Nested(_, _)
\* The tree under n levels of table name.
Nested(tree, n) == IF n = 0 THEN tree ELSE Obj1("Production", Nested(tree, n - 1))

----------------------------------------------------------------------------
(* The calls *)

InitType ==
    /\ pc = "get_type_string"
    /\ json_value \in TypeInputs
    /\ type_string = PyNone
    /\ json_object = PyNone /\ root_name = "." /\ field_map = PyNone
    /\ json_schema = PyNone
    /\ tree_a = PyNone /\ tree_b = PyNone /\ a_before = PyNone /\ b_before = PyNone
    /\ merged = PyNone

InitSchema ==
    /\ pc = "get_schema"
    /\ json_object \in JsonObjects
    /\ root_name \in TableNames
    /\ field_map \in FieldMaps(root_name)
    /\ json_schema = PyNone
    /\ json_value = PyNone /\ type_string = PyNone
    /\ tree_a = PyNone /\ tree_b = PyNone /\ a_before = PyNone /\ b_before = PyNone
    /\ merged = PyNone

InitMerge ==
    /\ pc = "merge"
    /\ \E ta \in Trees, tb \in Trees, n \in 0..MaxNesting, rev \in BOOLEAN :
          /\ tree_a = Nested(ta, n)
          /\ tree_b = Nested(IF rev THEN Reversed(tb) ELSE tb, n)
    /\ a_before = tree_a
    /\ b_before = tree_b
    /\ merged = PyNone
    /\ json_value = PyNone /\ type_string = PyNone
    /\ json_object = PyNone /\ root_name = "." /\ field_map = PyNone
    /\ json_schema = PyNone

Init == InitType \/ InitSchema \/ InitMerge

\* type_string = get_type_string(json_value)
CallGetTypeString ==
    /\ pc = "get_type_string"
    /\ type_string' = PyStr(get_type_string(json_value))
    /\ pc' = "done"
    /\ UNCHANGED <<json_value, json_object, root_name, field_map, json_schema,
                   tree_a, tree_b, a_before, b_before, merged>>

\* json_schema = get_schema(json_object, table_name, field_map)
CallGetSchema ==
    /\ pc = "get_schema"
    /\ json_schema' = get_schema(json_object, root_name, field_map)
    /\ pc' = "done"
    /\ UNCHANGED <<json_value, type_string, json_object, root_name, field_map,
                   tree_a, tree_b, a_before, b_before, merged>>

\* merged = merge(a, b): a and b are mutated in place.
CallMerge ==
    /\ pc = "merge"
    /\ LET r == merge(Payload(tree_a), Payload(tree_b), 1, <<>>)
       IN  /\ merged' = r[1]
           /\ tree_a' = PyDict(r[2])
           /\ tree_b' = PyDict(r[3])
    /\ pc' = "done"
    /\ UNCHANGED <<json_value, type_string, json_object, root_name, field_map,
                   json_schema, a_before, b_before>>

Next == CallGetTypeString \/ CallGetSchema \/ CallMerge

Spec == Init /\ [][Next]_vars

----------------------------------------------------------------------------
(* Properties *)

TypeDone == pc = "done" /\ type_string # PyNone
SchemaDone == pc = "done" /\ json_schema # PyNone
MergeDone == pc = "done" /\ merged # PyNone

\* The type label the specification gives a scalar JSON value.
ScalarLabel(v) ==
    CASE ClassOf(v) = "bool" -> "Boolean"
      [] ClassOf(v) \in {"int", "float"} -> "Number"
      [] ClassOf(v) = "str" -> "String"
      [] ClassOf(v) = "NoneType" -> "Null"
      [] OTHER -> "Unknown"

TypeLabels == {"Number", "Boolean", "String", "Null", "Unknown"}

\* C1: get_type_string returns one of the five labels for every scalar, and
\* Boolean, never Number, for true and false.
C1_BooleanNeverNumber ==
    TypeDone /\ json_value \in JsonScalars
        => /\ Payload(type_string) \in TypeLabels
           /\ (ClassOf(json_value) = "bool" => type_string = PyStr("Boolean"))

\* The example of the specification: {"items":[{"id":1,"name":"x"},{"id":2}]}.
ExampleObject ==
    Obj1("items", PyList(<< PyDict(<< Entry("id", PyInt(1)), Entry("name", PyStr("x")) >>),
                            Obj1("id", PyInt(2)) >>))

\* C2: get_schema raises no error, whatever the object, the table name and the
\* field map; the example with no field map returns the tables . and Items.
C2_GetSchemaNeverRaises ==
    SchemaDone
        => /\ Returned(json_schema)
           /\ (json_object = ExampleObject /\ root_name = "." /\ field_map = PyNone
                  => DictKeys(Payload(Value(json_schema))) = {".", "Items"})

\* An array handled as an array of objects: non-empty, first element an object.
IsObjectArray(v) ==
    /\ ClassOf(v) = "list"
    /\ Len(Payload(v)) > 0
    /\ ClassOf(Payload(v)[1]) = "dict"

\* The table name the walk gives the array of objects under json_key.
ArrayTableName(json_key, tname, fmap) ==
    ListChildTableName(Value(ValueNameOverride(CurrentTableFieldMap(fmap, tname), json_key)),
                       tname, json_key)

RECURSIVE Derivations(_, _, _, _)
\* The <<key path, table name>> of every nested object and array of objects
\* of obj, at any depth, when obj is walked under the table name tname.
Derivations(obj, tname, fmap, path) ==
    UNION {
        LET json_key == Payload(obj)[i][1]
            value == Payload(obj)[i][2]
        IN  IF ClassOf(value) = "dict"
            THEN LET name == DefaultChildTableName(tname, json_key)
                 IN  {<<Append(path, json_key), name>>}
                         \cup Derivations(value, name, fmap, Append(path, json_key))
            ELSE IF IsObjectArray(value)
            THEN LET name == ArrayTableName(json_key, tname, fmap)
                 IN  {<<Append(path, json_key), name>>}
                         \cup UNION {Derivations(Payload(value)[n], name, fmap,
                                                 Append(path, json_key)) :
                                        n \in {m \in 1..Len(Payload(value)) :
                                                  ClassOf(Payload(value)[m]) = "dict"}}
            ELSE {}
        : i \in 1..Len(Payload(obj))}

\* The table called name comes from one place of the input only.
SingleDerivation(name) ==
    /\ name # root_name
    /\ Cardinality({d \in Derivations(json_object, root_name, field_map, <<>>) :
                       d[2] = name}) = 1

\* The keys of the root object whose value is an array of objects with a
\* table of its own, once get_schema has returned.
SingleArrayKeys ==
    IF SchemaDone /\ Returned(json_schema)
    THEN {i \in 1..Len(Payload(json_object)) :
             /\ IsObjectArray(Payload(json_object)[i][2])
             /\ SingleDerivation(ArrayTableName(Payload(json_object)[i][1],
                                                root_name, field_map))}
    ELSE {}

ArrayElements(i) == Payload(Payload(json_object)[i][2])
ArrayTable(i) ==
    Payload(DictItem(Payload(Value(json_schema)),
                     ArrayTableName(Payload(json_object)[i][1], root_name, field_map)))

IsOptional(descriptor) == DictGet(Payload(descriptor), "optional") = PyBool(TRUE)

\* C3: the table of an array of objects has the union of the elements' keys as
\* its fields; a field is optional iff some element lacks its key, and a key
\* of every element carries no optional flag.
C3_OptionalIffAbsentFromSomeElement ==
    \A i \in SingleArrayKeys :
        /\ DictKeys(ArrayTable(i))
              = UNION {DictKeys(Payload(ArrayElements(i)[n])) :
                          n \in 1..Len(ArrayElements(i))}
        /\ \A key \in DictKeys(ArrayTable(i)) :
              LET absent == \E n \in 1..Len(ArrayElements(i)) :
                                key \notin DictKeys(Payload(ArrayElements(i)[n]))
              IN  /\ IsOptional(DictItem(ArrayTable(i), key)) <=> absent
                  /\ ~absent => ~DictHas(Payload(DictItem(ArrayTable(i), key)), "optional")

\* An array of three objects, one key in two of them and one key in all three.
C3_Witness ==
    \E i \in SingleArrayKeys :
        /\ Len(ArrayElements(i)) = 3
        /\ \E key \in DictKeys(ArrayTable(i)) :
              /\ Cardinality({n \in 1..3 : key \in DictKeys(Payload(ArrayElements(i)[n]))}) = 2
              /\ IsOptional(DictItem(ArrayTable(i), key))
        /\ \E key \in DictKeys(ArrayTable(i)) :
              /\ \A n \in 1..3 : key \in DictKeys(Payload(ArrayElements(i)[n]))
              /\ ~IsOptional(DictItem(ArrayTable(i), key))

----------------------------------------------------------------------------
(* Properties of merge *)

Missing == <<"missing", "">>

RECURSIVE ValueAt(_, _)
\* The value found in tree by following the keys of path.
ValueAt(tree, path) ==
    IF path = <<>> THEN tree
    ELSE IF ClassOf(tree) = "dict" /\ DictHas(Payload(tree), Head(path))
    THEN ValueAt(DictItem(Payload(tree), Head(path)), Tail(path))
    ELSE Missing

RECURSIVE LeavesOf(_, _)
\* The <<key path, scalar>> of every leaf of tree.
LeavesOf(tree, path) ==
    IF ClassOf(tree) # "dict" THEN {<<path, tree>>}
    ELSE UNION {LeavesOf(Payload(tree)[i][2], Append(path, Payload(tree)[i][1])) :
                   i \in 1..Len(Payload(tree))}

\* The leaf is in tree: at its path, or, for a string that rules 4 and 5 turn
\* into a description, as the description of the mapping at its path.
Present(leaf, tree) ==
    LET found == ValueAt(tree, leaf[1])
    IN  \/ found # Missing /\ ClassOf(found) # "dict" /\ PyEq(found, leaf[2])
        \/ /\ ClassOf(leaf[2]) = "str"
           /\ ClassOf(found) = "dict"
           /\ DictGet(Payload(found), "description") = leaf[2]

\* C4: merge never loses data: a Conflict is raised or every leaf of A before
\* the call and of B is in the returned tree; a description that a mapping
\* holds is not replaced by the bare string of the other side.
C4_MergeNeverLosesData ==
    MergeDone
        => \/ Raised(merged)
           \/ \A leaf \in LeavesOf(a_before, <<>>) \cup LeavesOf(b_before, <<>>) :
                 Present(leaf, Value(merged))

RECURSIVE Offending(_, _, _)
\* The paths of the keys that both trees hold with values that are neither
\* both mappings, nor equal, nor a mapping and a string.
Offending(ta, tb, path) ==
    UNION {
        LET va == DictItem(Payload(ta), key)
            vb == DictItem(Payload(tb), key)
        IN  IF ClassOf(va) = "dict" /\ ClassOf(vb) = "dict"
            THEN Offending(va, vb, Append(path, key))
            ELSE IF \/ PyEq(va, vb)
                    \/ ClassOf(va) = "dict" /\ ClassOf(vb) = "str"
                    \/ ClassOf(vb) = "dict" /\ ClassOf(va) = "str"
            THEN {}
            ELSE {Append(path, key)}
        : key \in DictKeys(Payload(ta)) \cap DictKeys(Payload(tb))}

RECURSIVE Dotted(_)
\* p1.p2.….pn.k
Dotted(path) ==
    IF Len(path) = 1 THEN path[1]
    ELSE Dotted(SubSeq(path, 1, Len(path) - 1)) \o "." \o path[Len(path)]

\* C5: when some key is in both trees with irreconcilable values, merge raises
\* a Conflict that names the full dotted path of such a key.
C5_ConflictNamesFullPath ==
    MergeDone /\ Offending(a_before, b_before, <<>>) # {}
        => /\ Raised(merged)
           /\ \E path \in Offending(a_before, b_before, <<>>) :
                 Value(merged) = <<"Exception", "Conflict at " \o Dotted(path)>>

\* A conflict two mappings below the root of the merge.
C5_Witness ==
    /\ MergeDone
    /\ <<"Production", "a", "type">> \in Offending(a_before, b_before, <<>>)
    /\ merged = Raise("Exception", "Conflict at Production.a.type")

RECURSIVE ShorthandSites(_, _, _)
\* <<path, mapping, string>> for every key that holds a mapping in one tree
\* and a string in the other.
ShorthandSites(ta, tb, path) ==
    UNION {
        LET va == DictItem(Payload(ta), key)
            vb == DictItem(Payload(tb), key)
        IN  IF ClassOf(va) = "dict" /\ ClassOf(vb) = "dict"
            THEN ShorthandSites(va, vb, Append(path, key))
            ELSE IF ClassOf(va) = "dict" /\ ClassOf(vb) = "str"
            THEN {<<Append(path, key), va, vb>>}
            ELSE IF ClassOf(vb) = "dict" /\ ClassOf(va) = "str"
            THEN {<<Append(path, key), vb, va>>}
            ELSE {}
        : key \in DictKeys(Payload(ta)) \cap DictKeys(Payload(tb))}

\* The mapping with its other keys retained and description = text.
IsDescribed(result, mapping, text) ==
    /\ ClassOf(result) = "dict"
    /\ DictKeys(Payload(result)) = DictKeys(Payload(mapping)) \cup {"description"}
    /\ DictItem(Payload(result), "description") = text
    /\ \A key \in DictKeys(Payload(mapping)) \ {"description"} :
          DictItem(Payload(result), key) = DictItem(Payload(mapping), key)

\* C6: a key with a mapping on one side and a string on the other is no
\* conflict, and the merged value is the mapping with description = the
\* string, whichever side held the string.
C6_ShorthandIsSymmetric ==
    MergeDone
        => \A site \in ShorthandSites(a_before, b_before, <<>>) :
              /\ Raised(merged)
                    => Value(merged) # <<"Exception", "Conflict at " \o Dotted(site[1])>>
              /\ Offending(a_before, b_before, <<>>) = {} => Returned(merged)
              /\ Returned(merged)
                    => IsDescribed(ValueAt(Value(merged), site[1]), site[2], site[3])

\* The example: inferred {"a": {"type": "Number"}} into authored
\* {"a": "An example field"}.
C6_Witness ==
    /\ MergeDone
    /\ a_before = Obj1("a", PyStr("An example field"))
    /\ b_before = Obj1("a", Obj1("type", PyStr("Number")))
    /\ merged = Return(Obj1("a", PyDict(<< Entry("type", PyStr("Number")),
                                           Entry("description", PyStr("An example field")) >>)))

\* C7: merging a tree into an exact deep copy of itself raises no Conflict,
\* returns a tree equal to it and leaves the merged-in tree unchanged.
C7_MergeIdempotent ==
    MergeDone /\ a_before = b_before
        => /\ Returned(merged)
           /\ Value(merged) = a_before
           /\ tree_a = a_before
           /\ tree_b = b_before

\* A tree of tables, fields and descriptors merged into its copy.
C7_Witness ==
    /\ MergeDone
    /\ a_before = b_before
    /\ Returned(merged)
    /\ \E leaf \in LeavesOf(a_before, <<>>) : Len(leaf[1]) = 3
    /\ Cardinality(LeavesOf(a_before, <<>>)) >= 3

----------------------------------------------------------------------------
(* Properties of the tables of get_schema *)

\* The table that the returned tree stores under the table name of the call.
RootTable == DictItem(Payload(Value(json_schema)), root_name)

\* C8: the table stored under T has exactly the keys of the input object as
\* its fields, also when a child table has the same name as T.
C8_RootTableHasEveryInputKey ==
    SchemaDone /\ Returned(json_schema)
        => DictKeys(Payload(RootTable)) = DictKeys(Payload(json_object))

\* The keys of the root object recorded in a table under T that no child
\* table has replaced.
RecordedKeys ==
    IF /\ SchemaDone
       /\ Returned(json_schema)
       /\ \A d \in Derivations(json_object, root_name, field_map, <<>>) : d[2] # root_name
    THEN 1..Len(Payload(json_object))
    ELSE {}

\* <parent>.<Capitalized key>, the parent omitted when it is "."
NestedTableName(parent, json_key) ==
    IF parent = "." THEN capitalize(json_key) ELSE parent \o "." \o capitalize(json_key)

\* Every field of the table is a descriptor with a type.
IsTable(table) ==
    /\ ClassOf(table) = "dict"
    /\ \A i \in 1..Len(Payload(table)) :
          /\ ClassOf(Payload(table)[i][2]) = "dict"
          /\ ClassOf(DictGet(Payload(Payload(table)[i][2]), "type")) = "str"

\* C9: a key whose value is an object is recorded as type Object with the
\* quoted child table name as its value, and the tree maps that name to the
\* table whose fields are the keys of the nested object.
C9_ObjectKeyHasChildTable ==
    \A i \in RecordedKeys :
        LET json_key == Payload(json_object)[i][1]
            value == Payload(json_object)[i][2]
            name == NestedTableName(root_name, json_key)
        IN  ClassOf(value) = "dict"
                => /\ DictItem(Payload(RootTable), json_key)
                         = PyDict(<< Entry("type", PyStr("Object")),
                                     Entry("value", PyStr(Backquote \o name \o Backquote)) >>)
                   /\ DictHas(Payload(Value(json_schema)), name)
                   /\ LET table == DictItem(Payload(Value(json_schema)), name)
                      IN  /\ IsTable(table)
                          /\ DictKeys(Payload(table)) = DictKeys(Payload(value))

\* C10: an array that is empty or does not start with an object is recorded
\* as Array(<type of its first element>), and as Array(Unknown) only when it
\* is empty.
C10_ScalarArrayTypeOfFirstElement ==
    \A i \in RecordedKeys :
        LET json_key == Payload(json_object)[i][1]
            value == Payload(json_object)[i][2]
        IN  ClassOf(value) = "list" /\ ~IsObjectArray(value)
                => DictGet(Payload(DictItem(Payload(RootTable), json_key)), "type")
                      = PyStr("Array("
                              \o (IF Payload(value) = <<>> THEN "Unknown"
                                  ELSE ScalarLabel(Payload(value)[1]))
                              \o ")")

\* The field refers to the table called name: an Object whose value is the
\* quoted name, or an Array(Object) whose value is "Array of" the quoted name.
RefersTo(descriptor, name) ==
    \/ /\ DictGet(Payload(descriptor), "type") = PyStr("Object")
       /\ DictGet(Payload(descriptor), "value") = PyStr(Backquote \o name \o Backquote)
    \/ /\ DictGet(Payload(descriptor), "type") = PyStr("Array(Object)")
       /\ DictGet(Payload(descriptor), "value")
             = PyStr("Array of " \o Backquote \o name \o Backquote)

IsReference(descriptor) ==
    /\ ClassOf(descriptor) = "dict"
    /\ DictGet(Payload(descriptor), "type") \in {PyStr("Object"), PyStr("Array(Object)")}

\* C11: the returned tree has a table for every object of the input, at any
\* depth, also inside the elements of an array of objects; so every field of
\* type Object or Array(Object) of an output table refers to a key of the tree.
C11_EveryNestedTableInTree ==
    SchemaDone /\ Returned(json_schema)
        => LET tree == Payload(Value(json_schema))
           IN  /\ \A d \in Derivations(json_object, root_name, field_map, <<>>) :
                     DictHas(tree, d[2])
               /\ \A t \in 1..Len(tree) :
                     \A f \in 1..Len(Payload(tree[t][2])) :
                        IsReference(Payload(tree[t][2])[f][2])
                           => \E name \in DictKeys(tree) :
                                 RefersTo(Payload(tree[t][2])[f][2], name)

\* The pairs of keys of the root object whose arrays of objects share one
\* table name, which nothing else of the input is given.
SharedArrayKeys ==
    IF SchemaDone /\ Returned(json_schema)
    THEN {p \in (1..Len(Payload(json_object))) \X (1..Len(Payload(json_object))) :
             /\ p[1] < p[2]
             /\ IsObjectArray(Payload(json_object)[p[1]][2])
             /\ IsObjectArray(Payload(json_object)[p[2]][2])
             /\ ArrayTableName(Payload(json_object)[p[1]][1], root_name, field_map)
                   = ArrayTableName(Payload(json_object)[p[2]][1], root_name, field_map)
             /\ ArrayTableName(Payload(json_object)[p[1]][1], root_name, field_map)
                   # root_name
             /\ Cardinality({d \in Derivations(json_object, root_name, field_map, <<>>) :
                    d[2] = ArrayTableName(Payload(json_object)[p[1]][1],
                                          root_name, field_map)}) = 2}
    ELSE {}

\* The elements of both arrays of the pair.
SharedElements(p) ==
    {ArrayElements(p[1])[n] : n \in 1..Len(ArrayElements(p[1]))}
        \cup {ArrayElements(p[2])[n] : n \in 1..Len(ArrayElements(p[2]))}

\* C12: two arrays of objects mapped to one table name give the table the
\* union of their fields, and a field is optional iff some element of either
\* array lacks it, whichever key is processed first.
C12_SharedTableOptionality ==
    \A p \in SharedArrayKeys :
        /\ DictKeys(ArrayTable(p[1])) = UNION {DictKeys(Payload(e)) : e \in SharedElements(p)}
        /\ \A key \in DictKeys(ArrayTable(p[1])) :
              IsOptional(DictItem(ArrayTable(p[1]), key))
                 <=> \E e \in SharedElements(p) : key \notin DictKeys(Payload(e))

====
